---- MODULE Spec2Model ----
(***************************************************************************)
(* Model of the golftracker round / handicap engine.                      *)
(*                                                                         *)
(*   roundController  (src/unnamed/part_000): calculateScoreDifferential,  *)
(*     updateUserHandicap, createRound, createMultiPlayerRound,            *)
(*     updateRound, deleteRound                                            *)
(*   userController   (src/backend/src/controllers/userController.ts):     *)
(*     register, getHandicapHistory                                        *)
(*                                                                         *)
(* Numbers.  The code computes with JavaScript numbers.  The model keeps   *)
(* every such value as an exact rational <<n, d>> in lowest terms with     *)
(* d > 0, so a quotient such as (score - rating) * 113 / slope is neither  *)
(* truncated nor rounded before the code rounds it.  A handicap, which     *)
(* the code always produces as Math.round(x * 10) / 10 or as the literal   *)
(* 54.0, is kept as its number of tenths (54.0 is 540).  The rounding     *)
(* error of IEEE doubles is not modelled: a differential such as           *)
(* 16 * 113 / 120 is the exact 226/15 here and the nearest double in the   *)
(* code, so an average that is an exact half tenth here (5.65) can be a    *)
(* double just beside it there.  Sums of differentials that doubles        *)
(* represent exactly (multiples of 0.5) are computed alike by both, and    *)
(* the stores below hold no rounds whose exact average is such a half      *)
(* while their differentials are not exact doubles.                        *)
(*                                                                         *)
(* Storage.  The DynamoDB tables are the variables handicap (USERS) and    *)
(* rounds (ROUNDS).  Every dynamodb.send is one atomic step of the store;  *)
(* the code between two awaits runs without interruption (one Node.js      *)
(* event loop), so a handler is a sequence of such steps and the steps of  *)
(* different requests interleave.  A send may fail (throw) instead.        *)
(***************************************************************************)
EXTENDS Integers, Sequences, FiniteSets, TLC

\* ------------------------------------------------------------------------
\* Exact rational arithmetic for JavaScript numbers
\* ------------------------------------------------------------------------

Abs(n) == IF n < 0 THEN -n ELSE n

RECURSIVE Gcd(_, _)
Gcd(a, b) == IF b = 0 THEN a ELSE Gcd(b, a % b)

\* n / d in lowest terms, denominator positive (d # 0).
Rat(n, d) ==
  LET g == Gcd(Abs(n), Abs(d))
      s == IF d < 0 THEN -1 ELSE 1
  IN  <<(s * n) \div g, (s * d) \div g>>

RatInt(n) == <<n, 1>>
RatAdd(a, b) == Rat(a[1] * b[2] + b[1] * a[2], a[2] * b[2])
RatSub(a, b) == Rat(a[1] * b[2] - b[1] * a[2], a[2] * b[2])
RatMul(a, b) == Rat(a[1] * b[1], a[2] * b[2])
RatDiv(a, b) == Rat(a[1] * b[2], a[2] * b[1])
RatLess(a, b) == a[1] * b[2] < b[1] * a[2]
RatLeq(a, b) == a[1] * b[2] <= b[1] * a[2]
RatMax(a, b) == IF RatLess(a, b) THEN b ELSE a
RatMin(a, b) == IF RatLess(b, a) THEN b ELSE a

\* Rounding to the nearest integer with an exact half going to the even one.
MathRound_HalfToEven(x) ==
  LET below == x[1] \div x[2]
      twice == 2 * (x[1] - below * x[2])
  IN  IF twice < x[2] THEN below
      ELSE IF twice > x[2] THEN below + 1
      ELSE IF below % 2 = 0 THEN below ELSE below + 1

\* Math.round(x): the nearest integer, an exact half going up (floor(x + 1/2)).
MathRound(x) == (2 * x[1] + x[2]) \div (2 * x[2])

\* Math.round(x * 10) / 10, as a number of tenths.
RoundToOneDecimal(x) == MathRound(RatMul(x, RatInt(10)))

\* A number of tenths as a number.
Tenths(t) == Rat(t, 10)

\* ------------------------------------------------------------------------
\* calculateScoreDifferential (roundController)
\* ------------------------------------------------------------------------

\* The reference slope of the differential formula.
StandardSlope == 113

\* The function with the slope of a nine-hole round halved.
calculateScoreDifferential_HalvedSlope(totalScore, courseRating, slopeRating, numberOfHoles) ==
  LET nine == numberOfHoles = 9
  IN  RatDiv(RatMul(RatSub(RatInt(IF nine THEN totalScore * 2 ELSE totalScore),
                           IF nine THEN RatMul(courseRating, RatInt(2))
                                   ELSE courseRating),
                    RatInt(StandardSlope)),
             IF nine THEN Rat(slopeRating, 2) ELSE RatInt(slopeRating))

\* The function with its result rounded to one decimal.
calculateScoreDifferential_Rounded(totalScore, courseRating, slopeRating, numberOfHoles) ==
  LET nine == numberOfHoles = 9
  IN  Tenths(RoundToOneDecimal(
        RatDiv(RatMul(RatSub(RatInt(IF nine THEN totalScore * 2 ELSE totalScore),
                             IF nine THEN RatMul(courseRating, RatInt(2))
                                     ELSE courseRating),
                      RatInt(StandardSlope)),
               RatInt(slopeRating))))

\* totalScore and slopeRating are integers, courseRating is a number.
calculateScoreDifferential(totalScore, courseRating, slopeRating, numberOfHoles) ==
  LET adjustedScore  == IF numberOfHoles = 9 THEN totalScore * 2 ELSE totalScore
      adjustedRating == IF numberOfHoles = 9
                          THEN RatMul(courseRating, RatInt(2))
                          ELSE courseRating
  IN  RatDiv(RatMul(RatSub(RatInt(adjustedScore), adjustedRating),
                    RatInt(StandardSlope)),
             RatInt(slopeRating))

\* The default of the parameter numberOfHoles.
DefaultHoles == 18

\* An argument list without numberOfHoles is written with Omitted in its place.
Omitted == 0

\* The value the parameter numberOfHoles takes for an argument.
NumberOfHolesParameter(argument) ==
  IF argument = Omitted THEN DefaultHoles ELSE argument

\* ------------------------------------------------------------------------
\* The computation of updateUserHandicap between its query and its update
\* ------------------------------------------------------------------------

\* Limit of the latest-rounds query.
QueryLimit == 20

\* The handicap of a player without rounds and of a new user, in tenths.
MaxHandicap == 540

RECURSIVE InsertAsc(_, _)
InsertAsc(x, s) ==
  IF s = <<>> THEN <<x>>
  ELSE IF RatLess(x, Head(s)) THEN <<x>> \o s
  ELSE <<Head(s)>> \o InsertAsc(x, Tail(s))

\* differentials.sort((a, b) => a - b)
RECURSIVE SortAsc(_)
SortAsc(s) == IF s = <<>> THEN <<>> ELSE InsertAsc(Head(s), SortAsc(Tail(s)))

Reverse(s) == [i \in 1..Len(s) |-> s[Len(s) + 1 - i]]

\* s.slice(0, k)
Slice(s, k) == SubSeq(s, 1, IF k < Len(s) THEN k ELSE Len(s))

\* s.reduce((sum, diff) => sum + diff, 0)
RECURSIVE SumSeq(_)
SumSeq(s) == IF s = <<>> THEN RatInt(0) ELSE RatAdd(Head(s), SumSeq(Tail(s)))

\* The chain with the test for 19 rounds lost.
NumberOfScoresToUse_Without19(roundCount) ==
  IF roundCount >= 20 THEN 8
  ELSE IF roundCount >= 16 THEN 6
  ELSE IF roundCount >= 12 THEN 5
  ELSE IF roundCount >= 9 THEN 4
  ELSE IF roundCount >= 6 THEN 3
  ELSE IF roundCount >= 3 THEN 2
  ELSE 1

\* The if-chain on rounds.length.
NumberOfScoresToUse(roundCount) ==
  IF roundCount >= 20 THEN 8
  ELSE IF roundCount >= 19 THEN 7
  ELSE IF roundCount >= 16 THEN 6
  ELSE IF roundCount >= 12 THEN 5
  ELSE IF roundCount >= 9 THEN 4
  ELSE IF roundCount >= 6 THEN 3
  ELSE IF roundCount >= 3 THEN 2
  ELSE 1

\* The differentials left in the order of the query.
SortedDifferentials_Unsorted(diffs) == diffs

\* The differentials sorted worst first (b - a).
SortedDifferentials_Descending(diffs) == Reverse(SortAsc(diffs))

SortedDifferentials(diffs) == SortAsc(diffs)

BestDifferentials(diffs) ==
  Slice(SortedDifferentials(diffs), NumberOfScoresToUse(Len(diffs)))

AverageDifferential(diffs) ==
  RatDiv(SumSeq(BestDifferentials(diffs)), RatInt(Len(BestDifferentials(diffs))))

\* newHandicap = Math.round(averageDifferential * 10) / 10, in tenths.
NewHandicap(diffs) == RoundToOneDecimal(AverageDifferential(diffs))

\* The value written as computed, without the clamp.
ClampHandicap_None(h) == h

\* Math.max(0, Math.min(54, newHandicap)), in tenths.
ClampHandicap(h) ==
  LET lo == IF MaxHandicap < h THEN MaxHandicap ELSE h
  IN  IF lo < 0 THEN 0 ELSE lo

\* The value without the literal 54.0 for an empty result.
HandicapToStore_EmptyAsZero(diffs) ==
  IF Len(diffs) = 0 THEN 0 ELSE ClampHandicap(NewHandicap(diffs))

\* The value updateUserHandicap sends to the USERS table for the
\* differentials of the rounds its query returned, in the order returned.
HandicapToStore(diffs) ==
  IF Len(diffs) = 0 THEN MaxHandicap ELSE ClampHandicap(NewHandicap(diffs))

\* ------------------------------------------------------------------------
\* The computation of getHandicapHistory (userController)
\* ------------------------------------------------------------------------

\* The 0.96 factor of the history.
BonusFactor == Rat(96, 100)

\* The history counting as updateUserHandicap counts.
HistoryCountToUse_StoredTable(n) == NumberOfScoresToUse(n)

HistoryCountToUse(n) ==
  IF n >= 20 THEN 8
  ELSE IF n >= 6 THEN (n * 4) \div 10      \* Math.floor(n * 0.4)
  ELSE 1

\* The handicap of one history entry, in tenths, from the differentials of
\* currentRounds = rounds.slice(0, i + 1).
HistoryHandicap(diffs) ==
  IF Len(diffs) >= 3
    THEN LET bestDiffs == Slice(SortAsc(diffs), HistoryCountToUse(Len(diffs)))
             avgDiff   == RatDiv(SumSeq(bestDiffs), RatInt(Len(bestDiffs)))
             handicap  == RatMax(RatInt(0),
                                 RatMin(RatInt(54), RatMul(avgDiff, BonusFactor)))
         IN  RoundToOneDecimal(handicap)
    ELSE RoundToOneDecimal(RatInt(54))

\* The history with every entry computed from all returned rounds.
HistoryOf_WholeList(rs) ==
  [i \in 1..Len(rs) |->
     [date |-> rs[i].date,
      handicap |-> HistoryHandicap([j \in 1..Len(rs) |-> rs[j].scoreDifferential]),
      scoreDifferential |-> rs[i].scoreDifferential]]

\* history: one entry per returned round, from the prefix ending at it.
HistoryOf(rs) ==
  [i \in 1..Len(rs) |->
     [date |-> rs[i].date,
      handicap |-> HistoryHandicap([j \in 1..i |-> rs[j].scoreDifferential]),
      scoreDifferential |-> rs[i].scoreDifferential]]

\* ------------------------------------------------------------------------
\* Bounds and inputs
\* ------------------------------------------------------------------------

\* Requests accepted in one behaviour of Spec.
MaxOps == 2

\* Storage calls that fail in one behaviour of Spec.
MaxFailures == 1

\* Largest number of rounds the store of HcpSpec starts with.
MaxSeed == 22

\* Requests accepted in one behaviour of HistSpec.
MaxHistOps == 3

\* Requests accepted in one behaviour of SeqSpec.
MaxSeqOps == 2

UserIds == {"u1", "u2"}

\* Concurrently served requests.
Reqs == {1, 2}

Dates == {1, 2}

\* The COURSES table: rating (in tenths) and slope per tee colour.  No
\* handler of the model writes it.  "c0" is the id of no course.
Courses ==
  [c1 |-> [rating |-> [white |-> 720, red |-> 695],
           slope  |-> [white |-> 113, red |-> 126]],
   c2 |-> [rating |-> [white |-> 715, red |-> 680],
           slope  |-> [white |-> 113, red |-> 120]]]

CourseIds == {"c1", "c2", "c0"}

CourseExists(courseId) == courseId \in DOMAIN Courses

\* Request bodies of createRound: course, tee, hole count and the sum of the
\* strokes of the holes array.
CardBodies ==
  <<[courseId |-> "c1", teeColor |-> "white", numberOfHoles |-> 18, strokes |-> 80],
    [courseId |-> "c1", teeColor |-> "white", numberOfHoles |-> 18, strokes |-> 70],
    [courseId |-> "c2", teeColor |-> "red", numberOfHoles |-> 9, strokes |-> 37],
    [courseId |-> "c1", teeColor |-> "red", numberOfHoles |-> 18, strokes |-> 131],
    [courseId |-> "c0", teeColor |-> "white", numberOfHoles |-> 18, strokes |-> 80],
    [courseId |-> "c2", teeColor |-> "white", numberOfHoles |-> 18, strokes |-> 74],
    [courseId |-> "c1", teeColor |-> "white", numberOfHoles |-> 18, strokes |-> 74]>>

Cards == 1..Len(CardBodies)

\* The round ids the requests of Spec name.
RoundIds == 1..4

\* The stroke sums of the holes arrays the updateRound requests carry.
NewHoles == {90}

\* The bodies the requests of Spec carry.
SpecCards == {1, 2}

\* The player lists the createMultiPlayerRound requests of Spec carry.
SpecPlayerLists == {<<"u1", "u2">>}

\* ------------------------------------------------------------------------
\* State
\* ------------------------------------------------------------------------

VARIABLES
  handicap,   \* USERS table: user id -> handicap in tenths (its domain: the users)
  rounds,     \* ROUNDS table: the set of stored round items
  req,        \* per request slot: the handler running there and its locals
  nextId,     \* stands for uuidv4(): the next unused round id
  ops,        \* requests accepted so far
  failures,   \* storage calls failed so far
  history,    \* the last response of getHandicapHistory
  writer,     \* per user: the rounds read by the recomputation that last wrote
              \* the user's handicap (history variable)
  calc        \* arguments and results of calculateScoreDifferential (DiffSpec)

vars == <<handicap, rounds, req, nextId, ops, failures, history, writer, calc>>

NoEntries == [p \in {} |-> 0]

Idle ==
  [op |-> "none", pc |-> "idle", userId |-> "", roundId |-> 0, card |-> 0,
   courseId |-> "", date |-> 0, playerScores |-> <<>>, i |-> 0, holes |-> 0,
   players |-> {}, toQuery |-> {}, related |-> {}, toDelete |-> {},
   deleteFailed |-> FALSE, hcp |-> NoEntries, calls |-> NoEntries,
   dirty |-> {}, hcpFailed |-> FALSE, status |-> 0]

NoHistory == [userId |-> "", status |-> 0, entries |-> <<>>]

NoCalc == [done |-> FALSE, totalScore |-> 0, courseRating |-> <<0, 1>>,
           slopeRating |-> 1, holes |-> 0, nine |-> <<0, 1>>,
           eighteen |-> <<0, 1>>, plain |-> <<0, 1>>, result |-> <<0, 1>>]

Free(r) == req[r].pc \in {"idle", "done"}

\* ------------------------------------------------------------------------
\* Queries on the userId-date-index of ROUNDS
\* ------------------------------------------------------------------------

UserRounds(u) == {x \in rounds : x.userId = u}

\* Every order of S by date descending; items of one date come in any order.
RECURSIVE DescOrders(_)
DescOrders(S) ==
  IF S = {} THEN {<<>>}
  ELSE UNION {{<<x>> \o t : t \in DescOrders(S \ {x})} :
                x \in {y \in S : \A z \in S : z.date <= y.date}}

\* The query with ScanIndexForward: true: the 20 oldest rounds.
QueryLatest_Oldest(u) ==
  {Slice(Reverse(s), QueryLimit) : s \in DescOrders(UserRounds(u))}

\* ScanIndexForward: false, Limit: 20.
QueryLatest(u) == {Slice(s, QueryLimit) : s \in DescOrders(UserRounds(u))}

\* ScanIndexForward: true, no limit.
QueryAscending(u) == {Reverse(s) : s \in DescOrders(UserRounds(u))}

\* The query without its FilterExpression.
QueryByDateAndCourse_AnyCourse(u, date, courseId) ==
  {x \in UserRounds(u) : x.date = date}

\* userId = :userId AND date = :date, filtered by courseId = :courseId.
QueryByDateAndCourse(u, date, courseId) ==
  {x \in UserRounds(u) : x.date = date /\ x.courseId = courseId}

Differentials(rs) == [i \in 1..Len(rs) |-> rs[i].scoreDifferential]

\* What the model keeps of a returned round.
Snapshot(rs) ==
  [i \in 1..Len(rs) |-> [id |-> rs[i].id, scoreDifferential |-> rs[i].scoreDifferential]]

\* ------------------------------------------------------------------------
\* register (userController)
\* ------------------------------------------------------------------------

\* The new user is put with handicap 54.0.  (The e-mail lookup that answers
\* 400 for a known address is the guard: a user registers once.)
Register(u) ==
  /\ u \notin DOMAIN handicap
  /\ handicap' = (u :> MaxHandicap) @@ handicap
  /\ UNCHANGED <<rounds, req, nextId, ops, failures, history, writer, calc>>

\* ------------------------------------------------------------------------
\* updateUserHandicap(userId), called by the round handlers
\* ------------------------------------------------------------------------

\* A call that has not sent its query yet.
NewCall ==
  [pc |-> "query", rounds |-> <<>>, numberOfScoresToUse |-> 0, value |-> 0,
   failed |-> FALSE]

EndedCall(failed) ==
  [pc |-> "done", rounds |-> <<>>, numberOfScoresToUse |-> 0, value |-> 0,
   failed |-> failed]

\* The locals of a call whose query returned rs.
QueriedCall(rs) ==
  [pc |-> "update",
   rounds |-> Snapshot(rs),
   numberOfScoresToUse |->
     IF Len(rs) = 0 THEN 0 ELSE NumberOfScoresToUse(Len(rs)),
   value |-> HandicapToStore(Differentials(rs)),
   failed |-> FALSE]

\* The value computed from the rounds stored when the update is applied.
HandicapWritten_ReadAgain(p, call) ==
  HandicapToStore(Differentials(CHOOSE rs \in QueryLatest(p) : TRUE))

\* The :handicap value of the call's UpdateCommand.
HandicapWritten(p, call) == call.value

\* The handler has answered: what the model keeps of the request.
Answered(q, status) ==
  [Idle EXCEPT !.op = q.op, !.pc = "done", !.userId = q.userId,
               !.roundId = q.roundId, !.dirty = q.dirty,
               !.hcpFailed = q.hcpFailed, !.status = status]

\* The handler with a failed call of updateUserHandicap rethrown: 500.
AfterHandicap_Rethrown(q) ==
  IF \E p \in DOMAIN q.hcp : q.hcp[p].pc # "done" THEN q
  ELSE IF q.hcpFailed THEN Answered(q, 500)
  ELSE IF q.op = "createRound" THEN Answered(q, 201)
  ELSE IF q.op = "createMultiPlayerRound"
    THEN IF q.i < Len(q.playerScores)
           THEN [q EXCEPT !.pc = "put", !.i = @ + 1, !.hcp = NoEntries]
           ELSE Answered(q, 201)
  ELSE Answered(q, 200)

\* What the handler does when a call of updateUserHandicap has returned:
\* the call never throws, so the handler goes on as after a call that wrote.
AfterHandicap(q) ==
  IF \E p \in DOMAIN q.hcp : q.hcp[p].pc # "done" THEN q
  ELSE IF q.op = "createRound" THEN Answered(q, 201)
  ELSE IF q.op = "createMultiPlayerRound"
    THEN IF q.i < Len(q.playerScores)
           THEN [q EXCEPT !.pc = "put", !.i = @ + 1, !.hcp = NoEntries]
           ELSE Answered(q, 201)
  ELSE Answered(q, 200)

\* calls counts, per player, the calls of updateUserHandicap the handler has
\* made: the count after one more call for each of players.
Called(calls, players) ==
  [p \in DOMAIN calls \cup players |->
     (IF p \in DOMAIN calls THEN calls[p] ELSE 0) + (IF p \in players THEN 1 ELSE 0)]

Calling(r, p) ==
  /\ req[r].pc = "handicap"
  /\ p \in DOMAIN req[r].hcp

\* The query on userId-date-index returns; the code up to the update runs.
HcpQuery(r, p) ==
  /\ Calling(r, p)
  /\ req[r].hcp[p].pc = "query"
  /\ \E rs \in QueryLatest(p) :
       req' = [req EXCEPT ![r].hcp[p] = QueriedCall(rs), ![r].dirty = @ \ {p}]
  /\ UNCHANGED <<handicap, rounds, nextId, ops, failures, history, writer, calc>>

\* The query throws: caught and logged inside updateUserHandicap.
HcpQueryFails(r, p) ==
  /\ Calling(r, p)
  /\ req[r].hcp[p].pc = "query"
  /\ failures < MaxFailures
  /\ failures' = failures + 1
  /\ req' = [req EXCEPT ![r] =
       AfterHandicap([req[r] EXCEPT !.hcp[p] = EndedCall(TRUE),
                                    !.dirty = @ \ {p},
                                    !.hcpFailed = TRUE])]
  /\ UNCHANGED <<handicap, rounds, nextId, ops, history, writer, calc>>

\* The update of the USERS item is applied.
HcpUpdate(r, p) ==
  /\ Calling(r, p)
  /\ req[r].hcp[p].pc = "update"
  /\ handicap' = (p :> HandicapWritten(p, req[r].hcp[p])) @@ handicap
  /\ writer' = [writer EXCEPT ![p] =
       [written |-> TRUE, rounds |-> req[r].hcp[p].rounds]]
  /\ req' = [req EXCEPT ![r] =
       AfterHandicap([req[r] EXCEPT !.hcp[p] = EndedCall(FALSE)])]
  /\ UNCHANGED <<rounds, nextId, ops, failures, history, calc>>

\* The update throws: caught and logged inside updateUserHandicap.
HcpUpdateFails(r, p) ==
  /\ Calling(r, p)
  /\ req[r].hcp[p].pc = "update"
  /\ failures < MaxFailures
  /\ failures' = failures + 1
  /\ req' = [req EXCEPT ![r] =
       AfterHandicap([req[r] EXCEPT !.hcp[p] = EndedCall(TRUE),
                                    !.hcpFailed = TRUE])]
  /\ UNCHANGED <<handicap, rounds, nextId, ops, history, writer, calc>>

\* ------------------------------------------------------------------------
\* createRound
\* ------------------------------------------------------------------------

\* The differential both create handlers compute for a body and a stroke sum.
RoundDifferential(body, strokes) ==
  LET course       == Courses[body.courseId]
      rating       == Tenths(course.rating[body.teeColor])
      courseRating == IF body.numberOfHoles = 9
                        THEN RatDiv(rating, RatInt(2))
                        ELSE rating
      slopeRating  == course.slope[body.teeColor]
  IN  calculateScoreDifferential(strokes, courseRating, slopeRating,
                                 body.numberOfHoles)

\* The item a create handler puts.
NewRound(id, userId, body, date, players, strokes) ==
  [id |-> id, userId |-> userId, courseId |-> body.courseId, date |-> date,
   players |-> players, holes |-> strokes, totalScore |-> strokes,
   scoreDifferential |-> RoundDifferential(body, strokes)]

\* A request is served in the first free slot.
Accept(r, q) ==
  /\ Free(r)
  /\ \A r2 \in Reqs : Free(r2) => r <= r2
  /\ ops' = ops + 1
  /\ req' = [req EXCEPT ![r] = q]

\* The request arrives; the course lookup answers.
CreateRoundStart(r, u, card, date) ==
  /\ u \in DOMAIN handicap
  /\ Accept(r, IF CourseExists(CardBodies[card].courseId)
                 THEN [Idle EXCEPT !.op = "createRound", !.pc = "put",
                                   !.userId = u, !.card = card, !.date = date]
                 ELSE Answered([Idle EXCEPT !.op = "createRound",
                                            !.userId = u], 404))
  /\ UNCHANGED <<handicap, rounds, nextId, failures, history, writer, calc>>

\* The round is put; updateUserHandicap(userId) is called.
CreateRoundPut(r) ==
  /\ req[r].op = "createRound"
  /\ req[r].pc = "put"
  /\ rounds' = rounds \cup
       {NewRound(nextId, req[r].userId, CardBodies[req[r].card], req[r].date,
                 {}, CardBodies[req[r].card].strokes)}
  /\ nextId' = nextId + 1
  /\ req' = [req EXCEPT ![r].pc = "handicap",
                        ![r].hcp = (req[r].userId :> NewCall),
                        ![r].calls = Called(@, {req[r].userId}),
                        ![r].dirty = @ \cup {req[r].userId}]
  /\ UNCHANGED <<handicap, ops, failures, history, writer, calc>>

\* The put of a create handler, a query for related rounds of deleteRound or
\* the update of updateRound throws: the handler answers 500.
HandlerCallFails(r) ==
  /\ req[r].pc \in {"put", "related", "update"}
  /\ failures < MaxFailures
  /\ failures' = failures + 1
  /\ req' = [req EXCEPT ![r] = Answered(req[r], 500)]
  /\ UNCHANGED <<handicap, rounds, nextId, ops, history, writer, calc>>

\* ------------------------------------------------------------------------
\* createMultiPlayerRound
\* ------------------------------------------------------------------------

\* playerScores of the request bodies: the player ids in order, each player
\* once; the holes of u1 sum to the body's strokes and those of u2 to one
\* more, so that two lists of the same players are the same scores in
\* another order.
PlayerLists == {<<"u1", "u2">>, <<"u2", "u1">>, <<"u2">>}

PlayerScores(players, card) ==
  [k \in 1..Len(players) |->
     [playerId |-> players[k],
      strokes |-> CardBodies[card].strokes + (IF players[k] = "u1" THEN 0 ELSE 1)]]

PlayerIds(playerScores) == {playerScores[k].playerId : k \in 1..Len(playerScores)}

\* The handler without the lookup of the players.
CreateMultiStart_NoPlayerCheck(r, u, players, card, date) ==
  LET q == [Idle EXCEPT !.op = "createMultiPlayerRound", !.userId = u,
                        !.card = card, !.date = date,
                        !.playerScores = PlayerScores(players, card)]
  IN  /\ u \in DOMAIN handicap
      /\ Accept(r, IF u \notin PlayerIds(q.playerScores) THEN Answered(q, 403)
                   ELSE IF ~CourseExists(CardBodies[card].courseId)
                     THEN Answered(q, 404)
                   ELSE [q EXCEPT !.pc = "put", !.i = 1])
      /\ UNCHANGED <<handicap, rounds, nextId, failures, history, writer, calc>>

\* The request arrives; the requester, the players and the course are checked.
CreateMultiStart(r, u, players, card, date) ==
  LET q == [Idle EXCEPT !.op = "createMultiPlayerRound", !.userId = u,
                        !.card = card, !.date = date,
                        !.playerScores = PlayerScores(players, card)]
  IN  /\ u \in DOMAIN handicap
      /\ Accept(r, IF u \notin PlayerIds(q.playerScores) THEN Answered(q, 403)
                   ELSE IF \E p \in PlayerIds(q.playerScores) : p \notin DOMAIN handicap
                     THEN Answered(q, 400)
                   ELSE IF ~CourseExists(CardBodies[card].courseId)
                     THEN Answered(q, 404)
                   ELSE [q EXCEPT !.pc = "put", !.i = 1])
      /\ UNCHANGED <<handicap, rounds, nextId, failures, history, writer, calc>>

\* The turn of the loop calling updateUserHandicap for every player of the
\* request.
CreateMultiPut_ThenAllPlayers(r) ==
  LET q           == req[r]
      playerScore == q.playerScores[q.i]
      otherPlayers == PlayerIds(q.playerScores) \ {playerScore.playerId}
  IN  /\ q.op = "createMultiPlayerRound"
      /\ q.pc = "put"
      /\ rounds' = rounds \cup
           {NewRound(nextId, playerScore.playerId, CardBodies[q.card], q.date,
                     otherPlayers, playerScore.strokes)}
      /\ nextId' = nextId + 1
      /\ req' = [req EXCEPT ![r].pc = "handicap",
                            ![r].hcp = [p \in PlayerIds(q.playerScores) |-> NewCall],
                            ![r].calls = Called(@, PlayerIds(q.playerScores)),
                            ![r].dirty = @ \cup {playerScore.playerId}]
      /\ UNCHANGED <<handicap, ops, failures, history, writer, calc>>

\* One turn of the loop: the player's round is put and
\* updateUserHandicap(playerScore.playerId) is called.
CreateMultiPut(r) ==
  LET q           == req[r]
      playerScore == q.playerScores[q.i]
      otherPlayers == PlayerIds(q.playerScores) \ {playerScore.playerId}
  IN  /\ q.op = "createMultiPlayerRound"
      /\ q.pc = "put"
      /\ rounds' = rounds \cup
           {NewRound(nextId, playerScore.playerId, CardBodies[q.card], q.date,
                     otherPlayers, playerScore.strokes)}
      /\ nextId' = nextId + 1
      /\ req' = [req EXCEPT ![r].pc = "handicap",
                            ![r].hcp = (playerScore.playerId :> NewCall),
                            ![r].calls = Called(@, {playerScore.playerId}),
                            ![r].dirty = @ \cup {playerScore.playerId}]
      /\ UNCHANGED <<handicap, ops, failures, history, writer, calc>>

\* ------------------------------------------------------------------------
\* deleteRound
\* ------------------------------------------------------------------------

Stored(id) == {x \in rounds : x.id = id}

\* What the handler keeps of a related round: r.id and r.userId.
Related(S) == {[id |-> x.id, userId |-> x.userId] : x \in S}

\* Only one owner of the related rounds.
UniquePlayerIds_OnlyOne(related) ==
  IF related = {} THEN {} ELSE {(CHOOSE x \in related : TRUE).userId}

\* uniquePlayerIds = [...new Set(relatedRounds.map(r => r.userId))]
UniquePlayerIds(related) == {x.userId : x \in related}

\* relatedRounds is complete: the deletes are sent, or, without any related
\* round, the handler answers at once.
AfterRelated(q) ==
  IF q.toQuery # {} THEN q
  ELSE IF q.related = {} THEN Answered(q, 200)
  ELSE [q EXCEPT !.pc = "delete", !.toDelete = {x.id : x \in q.related}]

\* The handler answering after the deletes without a call of
\* updateUserHandicap.
AfterDelete_WithoutUpdate(q) ==
  IF q.toDelete # {} THEN q
  ELSE IF q.deleteFailed THEN Answered(q, 500)
  ELSE Answered(q, 200)

\* Every delete has settled: one rejection makes the handler answer 500,
\* otherwise updateUserHandicap is called for every owner of a related round.
AfterDelete(q) ==
  IF q.toDelete # {} THEN q
  ELSE IF q.deleteFailed THEN Answered(q, 500)
  ELSE [q EXCEPT !.pc = "handicap",
                 !.hcp = [p \in UniquePlayerIds(q.related) |-> NewCall],
                 !.calls = Called(@, UniquePlayerIds(q.related))]

\* The handler testing only that the round exists.
DeleteRoundStart_NoOwnerCheck(r, u, id) ==
  LET q == [Idle EXCEPT !.op = "deleteRound", !.userId = u, !.roundId = id]
  IN  /\ u \in DOMAIN handicap
      /\ Accept(r,
           IF Stored(id) = {}
             THEN Answered(q, 403)
             ELSE LET round == CHOOSE x \in Stored(id) : TRUE
                  IN  IF round.players # {}
                        THEN [q EXCEPT !.pc = "related",
                                       !.players = round.players,
                                       !.date = round.date,
                                       !.courseId = round.courseId,
                                       !.toQuery = {u} \cup round.players]
                        ELSE AfterRelated([q EXCEPT !.related = Related({round})]))
      /\ UNCHANGED <<handicap, rounds, nextId, failures, history, writer, calc>>

\* The request arrives; the round is looked up.
DeleteRoundStart(r, u, id) ==
  LET q == [Idle EXCEPT !.op = "deleteRound", !.userId = u, !.roundId = id]
  IN  /\ u \in DOMAIN handicap
      /\ Accept(r,
           IF Stored(id) = {} \/ (\E x \in Stored(id) : x.userId # u)
             THEN Answered(q, 403)
             ELSE LET round == CHOOSE x \in Stored(id) : TRUE
                  IN  IF round.players # {}
                        THEN [q EXCEPT !.pc = "related",
                                       !.players = round.players,
                                       !.date = round.date,
                                       !.courseId = round.courseId,
                                       !.toQuery = {u} \cup round.players]
                        ELSE AfterRelated([q EXCEPT !.related = Related({round})]))
      /\ UNCHANGED <<handicap, rounds, nextId, failures, history, writer, calc>>

\* One of the parallel queries for the rounds of the same date and course.
DeleteRelatedQuery(r, p) ==
  /\ req[r].op = "deleteRound"
  /\ req[r].pc = "related"
  /\ p \in req[r].toQuery
  /\ req' = [req EXCEPT ![r] =
       AfterRelated([req[r] EXCEPT
         !.toQuery = @ \ {p},
         !.related = @ \cup
            Related(QueryByDateAndCourse(p, req[r].date, req[r].courseId))])]
  /\ UNCHANGED <<handicap, rounds, nextId, ops, failures, history, writer, calc>>

\* One of the parallel deletes.
DeleteRoundDelete(r, id) ==
  /\ req[r].op = "deleteRound"
  /\ req[r].pc = "delete"
  /\ id \in req[r].toDelete
  /\ rounds' = rounds \ Stored(id)
  /\ req' = [req EXCEPT ![r] =
       AfterDelete([req[r] EXCEPT
         !.toDelete = @ \ {id},
         !.dirty = @ \cup {x.userId : x \in Stored(id)}])]
  /\ UNCHANGED <<handicap, nextId, ops, failures, history, writer, calc>>

\* One of the parallel deletes throws; the others are still carried out.
DeleteRoundDeleteFails(r, id) ==
  /\ req[r].op = "deleteRound"
  /\ req[r].pc = "delete"
  /\ id \in req[r].toDelete
  /\ failures < MaxFailures
  /\ failures' = failures + 1
  /\ req' = [req EXCEPT ![r] =
       AfterDelete([req[r] EXCEPT !.toDelete = @ \ {id}, !.deleteFailed = TRUE])]
  /\ UNCHANGED <<handicap, rounds, nextId, ops, history, writer, calc>>

\* ------------------------------------------------------------------------
\* updateRound
\* ------------------------------------------------------------------------

\* The item an UpdateCommand creates when no item has the key: it carries
\* the key and the attributes that were set, so no userId, no date and no
\* scoreDifferential; it is in no userId-date-index.
KeyOnlyRound(id, holes) ==
  [id |-> id, userId |-> "", courseId |-> "", date |-> 0, players |-> {},
   holes |-> holes, totalScore |-> 0, scoreDifferential |-> <<0, 1>>]

\* The request arrives; the round is looked up.
UpdateRoundStart(r, u, id, holes) ==
  LET q == [Idle EXCEPT !.op = "updateRound", !.userId = u, !.roundId = id,
                        !.holes = holes]
  IN  /\ u \in DOMAIN handicap
      /\ Accept(r,
           IF Stored(id) = {} \/ (\E x \in Stored(id) : x.userId # u)
             THEN Answered(q, 403)
             ELSE [q EXCEPT !.pc = "update"])
      /\ UNCHANGED <<handicap, rounds, nextId, failures, history, writer, calc>>

\* The update also setting totalScore and scoreDifferential from the new holes.
UpdateRoundUpdate_Recomputes(r) ==
  /\ req[r].op = "updateRound"
  /\ req[r].pc = "update"
  /\ rounds' =
       IF Stored(req[r].roundId) = {}
         THEN rounds \cup {KeyOnlyRound(req[r].roundId, req[r].holes)}
         ELSE {IF x.id = req[r].roundId
                 THEN [x EXCEPT !.holes = req[r].holes,
                                !.totalScore = req[r].holes,
                                !.scoreDifferential =
                                   RatAdd(@, RatInt(req[r].holes - x.totalScore))]
                 ELSE x :
                 x \in rounds}
  /\ req' = [req EXCEPT ![r] = Answered(req[r], 200)]
  /\ UNCHANGED <<handicap, nextId, ops, failures, history, writer, calc>>

\* set holes = :holes, updatedAt = :updatedAt
UpdateRoundUpdate(r) ==
  /\ req[r].op = "updateRound"
  /\ req[r].pc = "update"
  /\ rounds' =
       IF Stored(req[r].roundId) = {}
         THEN rounds \cup {KeyOnlyRound(req[r].roundId, req[r].holes)}
         ELSE {IF x.id = req[r].roundId THEN [x EXCEPT !.holes = req[r].holes] ELSE x :
                 x \in rounds}
  /\ req' = [req EXCEPT ![r] = Answered(req[r], 200)]
  /\ UNCHANGED <<handicap, nextId, ops, failures, history, writer, calc>>

\* ------------------------------------------------------------------------
\* getHandicapHistory (userController)
\* ------------------------------------------------------------------------

\* The query returns all rounds of the user by date ascending; the history
\* is computed and sent.  The handler awaits nothing else.
GetHandicapHistory(u) ==
  /\ u \in DOMAIN handicap
  /\ ops' = ops + 1
  /\ \E rs \in QueryAscending(u) :
       history' = [userId |-> u, status |-> 200, entries |-> HistoryOf(rs)]
  /\ UNCHANGED <<handicap, rounds, req, nextId, failures, writer, calc>>

\* ------------------------------------------------------------------------
\* Specifications
\* ------------------------------------------------------------------------

\* The store after u1 has registered, or after u1 and u2 have registered and
\* u1 has created a round for both of them (createMultiPlayerRound, body 1,
\* date 1), served alone and without a failing call.
SeedPair ==
  {NewRound(1, "u1", CardBodies[1], 1, {"u2"}, 80),
   NewRound(2, "u2", CardBodies[1], 1, {"u1"}, 81)}

Init ==
  /\ \/ /\ rounds = {}
        /\ handicap = ("u1" :> MaxHandicap)
        /\ writer = [u \in UserIds |-> [written |-> FALSE, rounds |-> <<>>]]
        /\ nextId = 1
     \/ /\ rounds = SeedPair
        /\ handicap = [u \in UserIds |->
             HandicapToStore(Differentials(CHOOSE rs \in QueryLatest(u) : TRUE))]
        /\ writer = [u \in UserIds |->
             [written |-> TRUE,
              rounds |-> Snapshot(CHOOSE rs \in QueryLatest(u) : TRUE)]]
        /\ nextId = 3
  /\ req = [r \in Reqs |-> Idle]
  /\ ops = 0
  /\ failures = 0
  /\ history = NoHistory
  /\ calc = NoCalc

Next ==
  \/ \E u \in UserIds : Register(u)
  \/ \E r \in Reqs, u \in UserIds, card \in SpecCards, date \in Dates :
       ops < MaxOps /\ CreateRoundStart(r, u, card, date)
  \/ \E r \in Reqs : CreateRoundPut(r)
  \/ \E r \in Reqs : HandlerCallFails(r)
  \/ \E r \in Reqs, u \in UserIds, players \in SpecPlayerLists, card \in {1},
          date \in Dates :
       ops < MaxOps /\ CreateMultiStart(r, u, players, card, date)
  \/ \E r \in Reqs : CreateMultiPut(r)
  \/ \E r \in Reqs, u \in UserIds, id \in RoundIds :
       ops < MaxOps /\ DeleteRoundStart(r, u, id)
  \/ \E r \in Reqs, p \in UserIds : DeleteRelatedQuery(r, p)
  \/ \E r \in Reqs, id \in RoundIds : DeleteRoundDelete(r, id)
  \/ \E r \in Reqs, id \in RoundIds : DeleteRoundDeleteFails(r, id)
  \/ \E r \in Reqs, u \in UserIds, id \in RoundIds, holes \in NewHoles :
       ops < MaxOps /\ UpdateRoundStart(r, u, id, holes)
  \/ \E r \in Reqs : UpdateRoundUpdate(r)
  \/ \E r \in Reqs, p \in UserIds : HcpQuery(r, p)
  \/ \E r \in Reqs, p \in UserIds : HcpQueryFails(r, p)
  \/ \E r \in Reqs, p \in UserIds : HcpUpdate(r, p)
  \/ \E r \in Reqs, p \in UserIds : HcpUpdateFails(r, p)

Spec == Init /\ [][Next]_vars

\* ------------------------------------------------------------------------
\* HcpSpec: one request served over a store that holds up to MaxSeed rounds
\* ------------------------------------------------------------------------

\* The body and the stroke sum of the i-th round u1 created, per pattern.
SeedPatterns == 1..6

SeedCard(pattern) ==
  IF pattern = 3 THEN 3 ELSE IF pattern = 5 THEN 4
  ELSE IF pattern = 6 THEN 6 ELSE 1

SeedStrokes(pattern, i) ==
  IF pattern = 1 THEN 73 + i                 \* the older the round, the better
  ELSE IF pattern = 2 THEN 100 - i           \* the newer the round, the better
  ELSE IF pattern = 3 THEN 37 + ((i * 3) % 7)
  ELSE IF pattern = 4 THEN 70 - (i % 3)      \* every differential negative
  ELSE IF pattern = 5 THEN 131 + (i % 4)     \* every differential above 54
  ELSE 73 + i                                \* differentials 2.5, 3.5, ...

\* u1 created n rounds with createRound, one per date 1..n.
SeedRounds(pattern, n) ==
  {NewRound(i, "u1", CardBodies[SeedCard(pattern)], i, {}, SeedStrokes(pattern, i)) :
     i \in 1..n}

\* The dates of the createRound requests: before every stored round, the
\* date of the oldest one, after every stored round.
HcpDates == {0, 1, MaxSeed + 1}

AllFree == \A r \in Reqs : Free(r)

\* u1 has registered and created the rounds one request at a time, no call
\* failing: the handicap is the one the last of these requests wrote.
HcpInit ==
  /\ \E pattern \in SeedPatterns, n \in 0..MaxSeed :
       /\ rounds = SeedRounds(pattern, n)
       /\ nextId = n + 1
       /\ handicap = ("u1" :>
            HandicapToStore(Differentials(CHOOSE rs \in QueryLatest("u1") : TRUE)))
       /\ writer = [u \in UserIds |->
            IF u = "u1" /\ n > 0
              THEN [written |-> TRUE,
                    rounds |-> Snapshot(CHOOSE rs \in QueryLatest("u1") : TRUE)]
              ELSE [written |-> FALSE, rounds |-> <<>>]]
  /\ req = [r \in Reqs |-> Idle]
  /\ ops = 0
  /\ failures = 0
  /\ history = NoHistory
  /\ calc = NoCalc

HcpNext ==
  \/ \E u \in UserIds : Register(u)
  \/ \E u \in UserIds, card \in Cards, date \in HcpDates :
       ops = 0 /\ CreateRoundStart(1, u, card, date)
  \/ CreateRoundPut(1)
  \/ \E p \in UserIds : HcpQuery(1, p)
  \/ \E p \in UserIds : HcpUpdate(1, p)
  \/ \E u \in UserIds, id \in 1..(MaxSeed + 1) :
       ops = 0 /\ DeleteRoundStart(1, u, id)
  \/ \E id \in 1..(MaxSeed + 1) : DeleteRoundDelete(1, id)
  \/ \E u \in UserIds : ops = 0 /\ GetHandicapHistory(u)

HcpSpec == HcpInit /\ [][HcpNext]_vars

\* ------------------------------------------------------------------------
\* HistSpec: u1 asks for the handicap history between creating and deleting
\* rounds
\* ------------------------------------------------------------------------

\* The numbers of rounds the store of HistSpec starts with.
HistSeeds == {0, 3, 20}

\* The bodies and dates of the createRound requests of HistSpec: a date
\* before every stored round and one after every stored round.
HistCards == {2, 7}

HistDates == {0, MaxSeed + 1}

\* The rounds the deleteRound requests of HistSpec name.
HistRoundIds == {1, 2}

HistInit ==
  /\ \E pattern \in SeedPatterns, n \in HistSeeds :
       /\ rounds = SeedRounds(pattern, n)
       /\ nextId = n + 1
       /\ handicap = ("u1" :>
            HandicapToStore(Differentials(CHOOSE rs \in QueryLatest("u1") : TRUE)))
       /\ writer = [u \in UserIds |->
            IF u = "u1" /\ n > 0
              THEN [written |-> TRUE,
                    rounds |-> Snapshot(CHOOSE rs \in QueryLatest("u1") : TRUE)]
              ELSE [written |-> FALSE, rounds |-> <<>>]]
  /\ req = [r \in Reqs |-> Idle]
  /\ ops = 0
  /\ failures = 0
  /\ history = NoHistory
  /\ calc = NoCalc

HistNext ==
  \/ \E u \in UserIds : ops < MaxHistOps /\ GetHandicapHistory(u)
  \/ \E u \in UserIds, card \in HistCards, date \in HistDates :
       ops < MaxHistOps /\ AllFree /\ CreateRoundStart(1, u, card, date)
  \/ CreateRoundPut(1)
  \/ \E p \in UserIds : HcpQuery(1, p)
  \/ \E p \in UserIds : HcpUpdate(1, p)
  \/ \E u \in UserIds, id \in HistRoundIds :
       ops < MaxHistOps /\ AllFree /\ DeleteRoundStart(1, u, id)
  \/ \E id \in HistRoundIds : DeleteRoundDelete(1, id)

HistSpec == HistInit /\ [][HistNext]_vars

\* ------------------------------------------------------------------------
\* SeqSpec: the requests are served one after the other and no storage
\* call fails
\* ------------------------------------------------------------------------

\* The rounds of SeedPair and a round that a third user, who sends no
\* request here, has created alone for the same date and course.
SeedOther == SeedPair \cup {NewRound(3, "u3", CardBodies[1], 1, {}, 85)}

\* The stores SeqSpec starts with: none; the rounds of SeedPair; those of
\* SeedOther; twenty rounds of u1.
SeqStores ==
  {{}, SeedPair, SeedOther, SeedRounds(1, QueryLimit), SeedRounds(6, QueryLimit)}

\* The bodies of the createRound and createMultiPlayerRound requests of
\* SeqSpec; body 5 names no course.
SeqCards == {1, 5, 6}

SeqMultiCards == {1, 5}

\* The round ids the requests of SeqSpec name.
SeqRoundIds == {1, 2, 3, QueryLimit + 1}

SeqInit ==
  /\ \E store \in SeqStores :
       /\ rounds = store
       /\ nextId = Cardinality(store) + 1
       /\ \E users \in IF store = {} THEN {{"u1"}} ELSE {UserIds} :
            /\ handicap = [u \in users |->
                 HandicapToStore(Differentials(CHOOSE rs \in QueryLatest(u) : TRUE))]
            /\ writer = [u \in UserIds |->
                 IF UserRounds(u) # {}
                   THEN [written |-> TRUE,
                         rounds |-> Snapshot(CHOOSE rs \in QueryLatest(u) : TRUE)]
                   ELSE [written |-> FALSE, rounds |-> <<>>]]
  /\ req = [r \in Reqs |-> Idle]
  /\ ops = 0
  /\ failures = 0
  /\ history = NoHistory
  /\ calc = NoCalc

\* A request is accepted when no other is being served.
SeqAccepting == AllFree /\ ops < MaxSeqOps

SeqNext ==
  \/ \E u \in UserIds : Register(u)
  \/ \E r \in Reqs, u \in UserIds, card \in SeqCards, date \in Dates :
       SeqAccepting /\ CreateRoundStart(r, u, card, date)
  \/ \E r \in Reqs : CreateRoundPut(r)
  \/ \E r \in Reqs, u \in UserIds, players \in PlayerLists, card \in SeqMultiCards,
          date \in Dates :
       SeqAccepting /\ CreateMultiStart(r, u, players, card, date)
  \/ \E r \in Reqs : CreateMultiPut(r)
  \/ \E r \in Reqs, u \in UserIds, id \in SeqRoundIds :
       SeqAccepting /\ DeleteRoundStart(r, u, id)
  \/ \E r \in Reqs, p \in UserIds : DeleteRelatedQuery(r, p)
  \/ \E r \in Reqs, id \in 1..(QueryLimit + MaxSeqOps * 2) : DeleteRoundDelete(r, id)
  \/ \E r \in Reqs, u \in UserIds, id \in SeqRoundIds, holes \in NewHoles :
       SeqAccepting /\ UpdateRoundStart(r, u, id, holes)
  \/ \E r \in Reqs : UpdateRoundUpdate(r)
  \/ \E r \in Reqs, p \in UserIds : HcpQuery(r, p)
  \/ \E r \in Reqs, p \in UserIds : HcpUpdate(r, p)

SeqSpec == SeqInit /\ [][SeqNext]_vars

\* ------------------------------------------------------------------------
\* DiffSpec: calculateScoreDifferential applied to drawn arguments
\* ------------------------------------------------------------------------

\* Stroke sums of nine holes, and one of eighteen.
DiffScores == 30..49 \cup {72}

\* Nine-hole course ratings: half of an eighteen-hole rating in tenths; and
\* the eighteen-hole rating 72.0.
DiffRatings == {Rat(t, 20) : t \in {655, 713, 720, 741}} \cup {RatInt(72)}

DiffSlopes == {55, 113, 126, 155}

\* The numberOfHoles arguments: none, nine, eighteen, and a number the
\* function has no case for.
DiffHoles == {Omitted, 9, 18, 12}

DiffInit ==
  /\ \E s \in DiffScores, rating \in DiffRatings, slope \in DiffSlopes,
        holes \in DiffHoles :
       calc = [NoCalc EXCEPT !.totalScore = s, !.courseRating = rating,
                             !.slopeRating = slope, !.holes = holes]
  /\ handicap = NoEntries
  /\ rounds = {}
  /\ req = [r \in Reqs |-> Idle]
  /\ nextId = 1
  /\ ops = 0
  /\ failures = 0
  /\ history = NoHistory
  /\ writer = [u \in UserIds |-> [written |-> FALSE, rounds |-> <<>>]]

\* The function is called for the nine-hole round, for the eighteen-hole
\* round of twice the score and rating, as an eighteen-hole round, and with
\* the drawn numberOfHoles argument.
Calculate ==
  /\ ~calc.done
  /\ calc' = [calc EXCEPT
       !.done = TRUE,
       !.nine = calculateScoreDifferential(calc.totalScore, calc.courseRating,
                                           calc.slopeRating, 9),
       !.eighteen = calculateScoreDifferential(
                      2 * calc.totalScore,
                      RatMul(RatInt(2), calc.courseRating),
                      calc.slopeRating, 18),
       !.plain = calculateScoreDifferential(calc.totalScore, calc.courseRating,
                                            calc.slopeRating, 18),
       !.result = calculateScoreDifferential(calc.totalScore, calc.courseRating,
                                             calc.slopeRating,
                                             NumberOfHolesParameter(calc.holes))]
  /\ UNCHANGED <<handicap, rounds, req, nextId, ops, failures, history, writer>>

DiffNext == Calculate

DiffSpec == DiffInit /\ [][DiffNext]_vars

\* ========================================================================
\* Properties
\* ========================================================================

\* The count table of the handicap rules: entry n is the number of lowest
\* differentials averaged for n considered rounds.
CountTable == <<1, 1, 2, 2, 2, 3, 3, 3, 4, 4, 4, 5, 5, 5, 5, 6, 6, 6, 7, 8>>

\* The rounds of a query result as a set of items (id, scoreDifferential).
Items(snapshot) == {snapshot[i] : i \in 1..Len(snapshot)}

ItemsOf(S) == {[id |-> x.id, scoreDifferential |-> x.scoreDifferential] : x \in S}

\* The k lowest items of S: those with fewer than k items below them (an
\* item of equal differential and smaller id counts as below).
Lowest(S, k) ==
  {x \in S :
     Cardinality({y \in S :
        \/ RatLess(y.scoreDifferential, x.scoreDifferential)
        \/ y.scoreDifferential = x.scoreDifferential /\ y.id < x.id}) < k}

RECURSIVE SumOf(_)
SumOf(S) ==
  IF S = {} THEN RatInt(0)
  ELSE LET x == CHOOSE y \in S : TRUE
       IN  RatAdd(x.scoreDifferential, SumOf(S \ {x}))

Mean(S) == RatDiv(SumOf(S), RatInt(Cardinality(S)))

\* The number of tenths nearest to m, the upper one when m is half-way.
NearestTenth(m) ==
  LET below == (10 * m[1]) \div m[2]
  IN  IF 2 * (10 * m[1] - below * m[2]) >= m[2] THEN below + 1 ELSE below

Within0And54(t) == IF t < 0 THEN 0 ELSE IF t > 540 THEN 540 ELSE t

\* The handicap, in tenths, of a player whose considered rounds are S.
ExpectedHandicap(S) ==
  IF S = {} THEN 540
  ELSE Within0And54(NearestTenth(Mean(Lowest(S, CountTable[Cardinality(S)]))))

\* The calls of updateUserHandicap whose query has returned and whose update
\* has not been sent.
Computed == {<<r, p>> \in Reqs \X UserIds :
               /\ req[r].pc = "handicap"
               /\ p \in DOMAIN req[r].hcp
               /\ req[r].hcp[p].pc = "update"}

\* C1: for every number n of returned rounds from 1 to 20, updateUserHandicap
\* averages exactly CountTable[n] differentials: 1 for 1-2 rounds, 2 for 3-5,
\* 3 for 6-8, 4 for 9-11, 5 for 12-15, 6 for 16-18, 7 for 19 and 8 for 20.
C1_CountTable ==
  \A c \in Computed :
    LET call == req[c[1]].hcp[c[2]]
        n    == Len(call.rounds)
    IN  n >= 1 =>
          /\ n <= 20
          /\ call.numberOfScoresToUse = CountTable[n]
          /\ Len(BestDifferentials(Differentials(call.rounds))) = CountTable[n]

\* A recomputation over 19 rounds has chosen its count.
C1_Witness ==
  \E c \in Computed :
    /\ Len(req[c[1]].hcp[c[2]].rounds) = 19
    /\ req[c[1]].hcp[c[2]].numberOfScoresToUse = 7

\* The steps in which the update of a call of updateUserHandicap for p is
\* applied.
Writes(r, p) ==
  /\ <<r, p>> \in Computed
  /\ ~req'[r].hcpFailed
  /\ \/ req'[r].pc # "handicap"
     \/ p \notin DOMAIN req'[r].hcp
     \/ req'[r].hcp[p].pc = "done"

\* C2: whenever updateUserHandicap writes a handicap computed from a
\* non-empty query result, the value is the mean of the CountTable[n] lowest
\* differentials, rounded to the nearest tenth and clamped to [0, 54],
\* whatever the order in which the query returned the rounds.
C2_WrittenIsMeanOfLowest ==
  [][\A r \in Reqs, p \in UserIds :
       Writes(r, p) /\ req[r].hcp[p].rounds # <<>> =>
         handicap'[p] = ExpectedHandicap(Items(req[r].hcp[p].rounds))]_vars

\* A handicap was written from at least three rounds that the query had
\* returned in an order in which the differentials do not ascend.
C2_Witness ==
  \E p \in DOMAIN handicap :
    /\ req[1].pc = "done"
    /\ req[1].status = 201
    /\ req[1].userId = p
    /\ writer[p].written
    /\ Len(writer[p].rounds) >= 3
    /\ \E i \in 1..(Len(writer[p].rounds) - 1) :
         RatLess(writer[p].rounds[i + 1].scoreDifferential,
                 writer[p].rounds[i].scoreDifferential)
    /\ handicap[p] = ExpectedHandicap(Items(writer[p].rounds))
    /\ handicap[p] \notin {0, 540}

\* The rounds of S dated after x.
Newer(x, S) == {y \in S : y.date > x.date}

\* C9: when a player has more than 20 stored rounds, a served createRound or
\* deleteRound of that player leaves a handicap computed from exactly 20
\* rounds, none of which has 20 or more rounds dated after it, as the clamped
\* nearest tenth of the mean of the 8 lowest differentials of these 20: an
\* older round's differential does not enter.
C9_OnlyTwentyLatest ==
  \A p \in DOMAIN handicap :
    ( /\ req[1].pc = "done"
      /\ req[1].op \in {"createRound", "deleteRound"}
      /\ req[1].status \in {200, 201}
      /\ req[1].userId = p
      /\ Cardinality(UserRounds(p)) > 20 ) =>
        LET S == Items(writer[p].rounds)
        IN  /\ Cardinality(S) = 20
            /\ S \subseteq ItemsOf({x \in UserRounds(p) :
                                     Cardinality(Newer(x, UserRounds(p))) < 20})
            /\ handicap[p] = Within0And54(NearestTenth(Mean(Lowest(S, 8))))

\* A request was served for a player with more than 20 rounds whose oldest
\* round has a differential below every differential that was considered.
C9_Witness ==
  \E p \in DOMAIN handicap :
    /\ req[1].pc = "done"
    /\ req[1].status \in {200, 201}
    /\ req[1].userId = p
    /\ Cardinality(UserRounds(p)) > 20
    /\ \E x \in UserRounds(p) :
         /\ Cardinality(Newer(x, UserRounds(p))) >= 20
         /\ \A y \in Items(writer[p].rounds) :
              RatLess(x.scoreDifferential, y.scoreDifferential)
    /\ handicap[p] \notin {0, 540}

\* C10: calculateScoreDifferential(s, r, slope, 9) equals
\* calculateScoreDifferential(2 * s, 2 * r, slope, 18) for every score,
\* rating and slope.
C10_NineHolesAsDoubledEighteen ==
  calc.done => calc.nine = calc.eighteen

\* The function was applied to a nine-hole round whose differential is not
\* the one of the same arguments taken as eighteen holes, on a slope other
\* than 113.
C10_Witness ==
  /\ calc.done
  /\ calc.nine # calc.plain
  /\ calc.slopeRating # StandardSlope
  /\ calc.nine # RatInt(0)

\* Every differential of a non-empty query result is below 0 / above 54.
AllNegative(snapshot) ==
  /\ snapshot # <<>>
  /\ \A i \in 1..Len(snapshot) : RatLess(snapshot[i].scoreDifferential, RatInt(0))

AllAbove54(snapshot) ==
  /\ snapshot # <<>>
  /\ \A i \in 1..Len(snapshot) : RatLess(RatInt(54), snapshot[i].scoreDifferential)

\* C4: every stored handicap and every handicap of a history entry is within
\* 0.0 and 54.0; a handicap written from differentials that are all negative
\* is 0.0 and one written from differentials that are all above 54 is 54.0.
C4_HandicapRange ==
  /\ \A u \in DOMAIN handicap :
       /\ handicap[u] >= 0
       /\ handicap[u] <= 540
       /\ writer[u].written /\ AllNegative(writer[u].rounds) => handicap[u] = 0
       /\ writer[u].written /\ AllAbove54(writer[u].rounds) => handicap[u] = 540
  /\ \A c \in Computed :
       LET call == req[c[1]].hcp[c[2]]
       IN  /\ call.value >= 0
           /\ call.value <= 540
           /\ AllNegative(call.rounds) => call.value = 0
           /\ AllAbove54(call.rounds) => call.value = 540
  /\ \A i \in 1..Len(history.entries) :
       /\ history.entries[i].handicap >= 0
       /\ history.entries[i].handicap <= 540

\* A createRound was served whose recomputation read only negative
\* differentials with a mean below -1.0, and stored 0.0.
C4_Witness ==
  \E p \in DOMAIN handicap :
    /\ req[1].pc = "done"
    /\ req[1].op = "createRound"
    /\ req[1].status = 201
    /\ req[1].userId = p
    /\ writer[p].written
    /\ AllNegative(writer[p].rounds)
    /\ NewHandicap(Differentials(writer[p].rounds)) < -10
    /\ handicap[p] = 0

\* The sets of rounds that can be the 20 most recent of u (all of them for a
\* player with at most 20): rounds of the date at the 20th place are
\* interchangeable.
LatestSets(u) ==
  LET S     == UserRounds(u)
      sure  == {x \in S : Cardinality({y \in S \ {x} : y.date >= x.date}) < 20}
      maybe == {x \in S : Cardinality(Newer(x, S)) < 20} \ sure
      need  == (IF Cardinality(S) < 20 THEN Cardinality(S) ELSE 20) - Cardinality(sure)
  IN  {sure \cup B : B \in {B \in SUBSET maybe : Cardinality(B) = need}}

\* C3 as stated: with no request in progress, every player's stored handicap
\* is the rounded, clamped count-table average over the player's currently
\* stored most recent 20 rounds, also after a failed handicap update.
C3_AlwaysCurrent ==
  AllFree =>
    \A u \in DOMAIN handicap :
      \E T \in LatestSets(u) : handicap[u] = ExpectedHandicap(ItemsOf(T))

\* C3 as amended: a player's stored handicap is the rounded, clamped
\* count-table average over the currently stored most recent 20 rounds
\* whenever these are the rounds read by the recomputation that last wrote
\* the handicap, or the player has no round and no recomputation has written.
C3_CurrentWhenLastReadIsCurrent ==
  \A u \in DOMAIN handicap :
    \A T \in LatestSets(u) :
      ( \/ ~writer[u].written /\ T = {}
        \/ writer[u].written /\ Items(writer[u].rounds) = ItemsOf(T) ) =>
          handicap[u] = ExpectedHandicap(ItemsOf(T))

\* Two requests were served and a player with at least two rounds holds the
\* handicap of the rounds the last writing recomputation read, which are the
\* current ones.
C3_Witness ==
  /\ AllFree
  /\ ops = MaxOps
  /\ \E u \in DOMAIN handicap :
       /\ Cardinality(UserRounds(u)) >= 2
       /\ writer[u].written
       /\ Items(writer[u].rounds) = ItemsOf(UserRounds(u))
       /\ handicap[u] = ExpectedHandicap(ItemsOf(UserRounds(u)))
       /\ handicap[u] \notin {0, 540}

\* C5 as stated: with no request in progress, a player with zero stored
\* rounds has handicap exactly 54.0.
C5_NoRoundsIs54 ==
  AllFree =>
    \A u \in DOMAIN handicap : UserRounds(u) = {} => handicap[u] = 540

\* C5 as amended: a user whose handicap no recomputation has written holds
\* the 54.0 of register, a recomputation whose query returned no round
\* computes exactly 54.0 without a count, and a user whose handicap was last
\* written by such a recomputation holds 54.0.
C5_EmptyReadWrites54 ==
  /\ \A u \in DOMAIN handicap :
       (~writer[u].written \/ writer[u].rounds = <<>>) => handicap[u] = 540
  /\ \A c \in Computed :
       LET call == req[c[1]].hcp[c[2]]
       IN  call.rounds = <<>> => call.value = 540 /\ call.numberOfScoresToUse = 0

\* A deleteRound was served that left a player without rounds, and the
\* recomputation that read no round wrote 54.0.
C5_Witness ==
  \E r \in Reqs :
    /\ req[r].pc = "done"
    /\ req[r].op = "deleteRound"
    /\ req[r].status = 200
    /\ UserRounds(req[r].userId) = {}
    /\ writer[req[r].userId].written
    /\ writer[req[r].userId].rounds = <<>>
    /\ handicap[req[r].userId] = 540

\* The status of a handler that succeeds.
SuccessStatus(op) == IF op = "deleteRound" THEN 200 ELSE 201

\* The steps in which a storage call of updateUserHandicap throws in r.
HcpCallFails(r) ==
  /\ req[r].pc = "handicap"
  /\ req'[r] # req[r]
  /\ failures' = failures + 1

\* C6: a throwing storage call inside updateUserHandicap changes neither the
\* rounds nor the stored handicap, and the handler goes on to answer with its
\* success status (201, 201, 200) when no call of its own throws.
C6_HandicapFailureSwallowed ==
  /\ [](\A r \in Reqs :
          req[r].pc = "done" /\ req[r].hcpFailed /\ failures = 1 =>
            req[r].status = SuccessStatus(req[r].op))
  /\ [][\A r \in Reqs :
          HcpCallFails(r) =>
            /\ rounds' = rounds
            /\ handicap' = handicap
            /\ req'[r].hcpFailed
            /\ req'[r].pc \in {"handicap", "put", "done"}
            /\ req'[r].pc = "done" => req'[r].status = SuccessStatus(req[r].op)]_vars

\* A createRound answered 201 although its handicap update failed: its round
\* is stored and the player still holds the 54.0 of before.
C6_Witness ==
  \E r \in Reqs :
    /\ req[r].pc = "done"
    /\ req[r].op = "createRound"
    /\ req[r].hcpFailed
    /\ req[r].status = 201
    /\ Cardinality(UserRounds(req[r].userId)) = 1
    /\ ~writer[req[r].userId].written
    /\ handicap[req[r].userId] = 540

\* C7: a createRound, createMultiPlayerRound or deleteRound that answers with
\* success has, for every player whose rounds it wrote or deleted, sent the
\* query of a recomputation after its last write or delete for that player;
\* no recomputation of a request has read before a write of the request for
\* the same player.
C7_RecomputedAfterWrite ==
  \A r \in Reqs :
    /\ ( /\ req[r].pc = "done"
         /\ req[r].op \in {"createRound", "createMultiPlayerRound", "deleteRound"}
         /\ req[r].status = SuccessStatus(req[r].op) ) => req[r].dirty = {}
    /\ req[r].pc = "handicap" =>
         \A p \in DOMAIN req[r].hcp :
           req[r].hcp[p].pc # "query" => p \notin req[r].dirty

\* A deleteRound of a round with another player answered 200: the rounds of
\* both players are deleted and both handicaps were recomputed from no round.
C7_Witness ==
  \E r \in Reqs :
    /\ req[r].pc = "done"
    /\ req[r].op = "deleteRound"
    /\ req[r].status = 200
    /\ failures = 0
    /\ rounds = {}
    /\ \A u \in UserIds :
         u \in DOMAIN handicap /\ writer[u].written /\ writer[u].rounds = <<>>

\* C8: the stored handicap of a player is always the value of the
\* recomputation that wrote last, computed from the rounds that
\* recomputation read, whatever was written or deleted since (54.0 before
\* any has written).
C8_LastWriterWins ==
  \A u \in DOMAIN handicap :
    handicap[u] = IF writer[u].written
                    THEN ExpectedHandicap(Items(writer[u].rounds))
                    ELSE 540

\* Two overlapping requests have both answered with success, no call has
\* failed, and a player's handicap is not the one of the player's rounds.
C8_Witness ==
  /\ AllFree
  /\ failures = 0
  /\ \A r \in Reqs :
       /\ req[r].pc = "done"
       /\ req[r].op \in {"createRound", "createMultiPlayerRound", "deleteRound"}
       /\ req[r].status = SuccessStatus(req[r].op)
  /\ \E u \in DOMAIN handicap :
       /\ writer[u].written
       /\ \A T \in LatestSets(u) : handicap[u] # ExpectedHandicap(ItemsOf(T))

\* C11: calculateScoreDifferential returns exactly
\* (adjustedScore - adjustedRating) * 113 / slopeRating, unrounded, where the
\* adjusted values are the arguments unless numberOfHoles is 9 (an omitted
\* numberOfHoles counts as 18); the result is 0 when the score equals the
\* rating.
C11_ExactDifferential ==
  calc.done =>
    LET doubled == calc.holes = 9
        score   == IF doubled THEN 2 * calc.totalScore ELSE calc.totalScore
        ratingN == IF doubled THEN 2 * calc.courseRating[1] ELSE calc.courseRating[1]
        ratingD == calc.courseRating[2]
    IN  /\ calc.result[2] > 0
        /\ calc.result[1] * calc.slopeRating * ratingD
             = (score * ratingD - ratingN) * 113 * calc.result[2]
        /\ calc.totalScore * ratingD = calc.courseRating[1] => calc.result[1] = 0
        /\ calc.holes = Omitted => calc.result = calc.plain

\* The function was applied to (72, 72.0, 113, 18) and returned 0.
C11_Witness ==
  /\ calc.done
  /\ calc.totalScore = 72
  /\ calc.courseRating = <<72, 1>>
  /\ calc.slopeRating = 113
  /\ calc.holes = 18
  /\ calc.result = <<0, 1>>

\* C12: the handicap updateUserHandicap computes is the average of the
\* selected differentials rounded to the nearest tenth, an average exactly
\* half-way between two tenths going to the upper one, and clamped after the
\* rounding: an average of exactly 2.25 gives 2.3.
C12_HalfRoundsUp ==
  \A c \in Computed :
    LET call == req[c[1]].hcp[c[2]]
        S    == Items(call.rounds)
    IN  call.rounds # <<>> =>
          LET avg == Mean(Lowest(S, CountTable[Cardinality(S)]))
              t   == NewHandicap(Differentials(call.rounds))
          IN  /\ 20 * avg[1] - avg[2] < 2 * t * avg[2]
              /\ 2 * t * avg[2] <= 20 * avg[1] + avg[2]
              /\ call.value = Within0And54(t)
              /\ avg = <<9, 4>> => call.value = 23

\* A recomputation averaged 2.0 and 2.5 and computed 2.3.
C12_Witness ==
  \E c \in Computed :
    LET call == req[c[1]].hcp[c[2]]
    IN  /\ Len(call.rounds) = 3
        /\ Mean(Lowest(Items(call.rounds), 2)) = <<9, 4>>
        /\ call.value = 23

\* The number of lowest differentials the history averages for a prefix of
\* n rounds, n from 3 to 20: floor(0.4 n) from 6 rounds on, 8 for 20.
HistoryTable == <<0, 0, 1, 1, 1, 2, 2, 3, 3, 4, 4, 4, 5, 5, 6, 6, 6, 7, 7, 8>>

\* The differentials of the first i entries of a history, as items.
PrefixItems(entries, i) ==
  {[id |-> j, scoreDifferential |-> entries[j].scoreDifferential] : j \in 1..i}

\* The handicap, in tenths, of the history entry whose prefix is S: 54.0 for
\* fewer than three rounds, else 0.96 times the mean of the lowest, brought
\* into [0, 54] and then rounded to the nearest tenth.
ExpectedHistoryHandicap(S) ==
  LET n == Cardinality(S)
  IN  IF n < 3 THEN 540
      ELSE LET m      == Mean(Lowest(S, IF n >= 20 THEN 8 ELSE HistoryTable[n]))
               scaled == <<24 * m[1], 25 * m[2]>>
           IN  IF scaled[1] < 0 THEN 0
               ELSE IF scaled[1] > 54 * scaled[2] THEN 540
               ELSE NearestTenth(scaled)

\* C13: the handicap of the history entry for a chronological prefix of n
\* rounds is 54.0 when n < 3, and otherwise the mean of the k lowest
\* differentials of the prefix times 0.96, clamped to [0, 54] and rounded to
\* one decimal, with k = 1 for 3 to 5 rounds, floor(0.4 n) for 6 to 19 and 8
\* from 20 on; the count is not the one of the stored handicap.
C13_HistoryRule ==
  history.status = 200 =>
    \A i \in 1..Len(history.entries) :
      history.entries[i].handicap
        = ExpectedHistoryHandicap(PrefixItems(history.entries, i))

\* A history of more than 20 rounds was returned whose entries after 3, 19
\* and more than 20 rounds are neither 0.0 nor 54.0, and whose entry after 3
\* rounds is not 0.96 times the mean of the two lowest differentials.
C13_Witness ==
  /\ history.status = 200
  /\ Len(history.entries) > 20
  /\ \A i \in {3, 19, Len(history.entries)} :
       history.entries[i].handicap \notin {0, 540}
  /\ LET m == Mean(Lowest(PrefixItems(history.entries, 3), 2))
     IN  history.entries[3].handicap # NearestTenth(<<24 * m[1], 25 * m[2]>>)

\* The number of entries of a history with the date and differential of x.
EntriesLike(entries, x) ==
  Cardinality({i \in 1..Len(entries) :
                 /\ entries[i].date = x.date
                 /\ entries[i].scoreDifferential = x.scoreDifferential})

\* The number of stored rounds of u with the date and differential of x.
RoundsLike(u, x) ==
  Cardinality({y \in UserRounds(u) :
                 /\ y.date = x.date
                 /\ y.scoreDifferential = x.scoreDifferential})

\* C14: a call of getHandicapHistory changes neither the rounds nor the
\* handicaps and returns one entry per stored round of the player, by date
\* ascending; an entry's handicap depends on the rounds up to it only: where
\* the first i rounds are those of the previous response, the i-th handicap
\* is the one of the previous response, whatever rounds follow.
C14_HistoryReplaysPrefixes ==
  [][history' # history =>
       LET u   == history'.userId
           new == history'.entries
           old == history.entries
       IN  /\ rounds' = rounds
           /\ handicap' = handicap
           /\ Len(new) = Cardinality(UserRounds(u))
           /\ \A i \in 1..(Len(new) - 1) : new[i].date <= new[i + 1].date
           /\ \A x \in UserRounds(u) : EntriesLike(new, x) = RoundsLike(u, x)
           /\ history.userId = u =>
                \A i \in 1..Len(new) :
                  ( /\ i <= Len(old)
                    /\ \A j \in 1..i :
                         /\ old[j].date = new[j].date
                         /\ old[j].scoreDifferential = new[j].scoreDifferential ) =>
                      new[i].handicap = old[i].handicap]_vars

\* A history was returned after a round dated after all others was created:
\* the round has the last entry, whose handicap is not the one of the entry
\* before it, and the entry after three rounds is neither 0.0 nor 54.0.
C14_Witness ==
  /\ history.status = 200
  /\ ops >= 2
  /\ Len(history.entries) >= 4
  /\ Len(history.entries) = Cardinality(UserRounds(history.userId))
  /\ history.entries[Len(history.entries)].date = MaxSeed + 1
  /\ history.entries[Len(history.entries)].handicap
       # history.entries[Len(history.entries) - 1].handicap
  /\ history.entries[3].handicap \notin {0, 540}

\* The steps in which the UpdateCommand of an updateRound in r is applied.
UpdateApplied(r) ==
  /\ req[r].op = "updateRound"
  /\ req[r].pc = "update"
  /\ req'[r].pc = "done"
  /\ req'[r].status = 200

\* C15: no step changes the scoreDifferential, the totalScore or the owner of
\* a stored round; the update of updateRound changes nothing but the holes
\* of the round it names and leaves every stored handicap as it is.
C15_DifferentialSetOnce ==
  [][/\ \A x \in rounds, y \in rounds' :
          y.id = x.id =>
            /\ y.scoreDifferential = x.scoreDifferential
            /\ y.totalScore = x.totalScore
            /\ y.userId = x.userId
     /\ \A r \in Reqs :
          UpdateApplied(r) =>
            /\ handicap' = handicap
            /\ \A x \in rounds : x.id # req[r].roundId => x \in rounds'
            /\ \A y \in rounds' : y.id # req[r].roundId => y \in rounds
            /\ \A y \in rounds' : y.id = req[r].roundId => y.holes = req[r].holes]_vars

\* An updateRound answered 200: the round carries the new holes, its
\* totalScore of 80 and its differential of 8.0.
C15_Witness ==
  \E r \in Reqs :
    /\ req[r].pc = "done"
    /\ req[r].op = "updateRound"
    /\ req[r].status = 200
    /\ \E x \in UserRounds(req[r].userId) :
         /\ x.holes \in NewHoles
         /\ x.totalScore = 80
         /\ x.holes # x.totalScore
         /\ x.scoreDifferential = <<8, 1>>

\* The steps in which the handler in r sends its response after its last
\* call of updateUserHandicap has returned.
LastCallReturns(r) ==
  /\ req[r].pc = "handicap"
  /\ req'[r].pc = "done"
  /\ req'[r].status = SuccessStatus(req[r].op)

\* The players a batch request in r has to recompute: the players of the
\* playerScores, or the owners of the rounds it deleted.
Affected(r) ==
  IF req[r].op = "createMultiPlayerRound"
    THEN {req[r].playerScores[k].playerId : k \in 1..Len(req[r].playerScores)}
    ELSE {x.userId : x \in req[r].related}

\* C16: when a createMultiPlayerRound or a deleteRound answers, it has called
\* updateUserHandicap exactly once for each player of the request, or for
\* each owner of a deleted round, and for no one else; each of these players
\* then holds the handicap of the player's own stored rounds, in whatever
\* order the players were processed.
C16_OneRecomputationPerPlayer ==
  [][\A r \in Reqs :
       LastCallReturns(r) /\ req[r].op \in {"createMultiPlayerRound", "deleteRound"} =>
         /\ DOMAIN req[r].calls = Affected(r)
         /\ \A p \in Affected(r) : req[r].calls[p] = 1
         /\ \A p \in Affected(r) :
              \E T \in LatestSets(p) : handicap'[p] = ExpectedHandicap(ItemsOf(T))]_vars

\* A createMultiPlayerRound for u1 and u2 and the deleteRound of one of its
\* rounds were served: both players hold 54.0 again, written by the
\* recomputations of the deleteRound.
C16_Witness ==
  /\ ops = 2
  /\ nextId = 3
  /\ rounds = {}
  /\ req[1].pc = "done"
  /\ req[1].op = "deleteRound"
  /\ req[1].status = 200
  /\ \A u \in UserIds :
       u \in DOMAIN handicap /\ writer[u].written /\ handicap[u] = 540

\* C17: when the requests are served one after the other and no storage call
\* fails, then after a createRound, createMultiPlayerRound or deleteRound has
\* answered every player holds the handicap of the player's currently stored
\* 20 most recent rounds, 54.0 without rounds.
C17_CurrentAfterEachRequest ==
  \A r \in Reqs :
    ( /\ req[r].pc = "done"
      /\ req[r].op \in {"createRound", "createMultiPlayerRound", "deleteRound"} ) =>
        \A u \in DOMAIN handicap :
          handicap[u] \in {ExpectedHandicap(ItemsOf(T)) : T \in LatestSets(u)}

\* Two requests were served, the last a createRound; a player with more than
\* 20 rounds holds the handicap of 20 of them, and a stored round of the
\* player that was not read is better than every round read.
C17_Witness ==
  /\ ops = MaxSeqOps
  /\ req[1].pc = "done"
  /\ req[1].op = "createRound"
  /\ req[1].status = 201
  /\ \E u \in DOMAIN handicap :
       /\ Cardinality(UserRounds(u)) > 20
       /\ Len(writer[u].rounds) = 20
       /\ handicap[u] = ExpectedHandicap(Items(writer[u].rounds))
       /\ handicap[u] \notin {0, 540}
       /\ \E x \in UserRounds(u) :
            \A y \in Items(writer[u].rounds) :
              RatLess(x.scoreDifferential, y.scoreDifferential)

\* The steps in which a request is accepted in slot r.
Accepted(r) ==
  /\ ops' = ops + 1
  /\ req'[r] # req[r]

\* C18: a deleteRound or updateRound that names a round id that is not
\* stored, or a round of another user, answers 403 at once: no round and no
\* handicap changes and the handler calls no recomputation.
C18_NotOwnerIs403 ==
  [][\A r \in Reqs :
       Accepted(r) /\ req'[r].op \in {"deleteRound", "updateRound"} =>
         LET named == {x \in rounds : x.id = req'[r].roundId}
         IN  (named = {} \/ \E x \in named : x.userId # req'[r].userId) =>
               /\ req'[r].pc = "done"
               /\ req'[r].status = 403
               /\ req'[r].hcp = NoEntries
               /\ rounds' = rounds
               /\ handicap' = handicap
               /\ writer' = writer]_vars

\* A deleteRound of a stored round of another user has answered 403, and
\* the round is still stored.
C18_Witness ==
  \E r \in Reqs :
    /\ req[r].pc = "done"
    /\ req[r].op = "deleteRound"
    /\ req[r].status = 403
    /\ \E x \in rounds : x.id = req[r].roundId /\ x.userId # req[r].userId

\* The rounds a deleteRound with the locals q is to delete: the round it
\* names and, when that round lists other players, the rounds of the
\* requester and of these players with the date and course of that round.
InScope(q, x) ==
  \/ x.id = q.roundId
  \/ /\ q.players # {}
     /\ x.userId \in {q.userId} \cup q.players
     /\ x.date = q.date
     /\ x.courseId = q.courseId

\* C19: a round leaves the store only in a delete of a deleteRound whose
\* target it is or, for a target that lists other players, whose requester
\* or listed players own it with the target's date and course; when the
\* deletes of a deleteRound are all applied, the target and every such round
\* is gone; a target without listed players goes alone.
C19_DeletesExactlyRelated ==
  [][/\ \A x \in rounds :
          (\A y \in rounds' : y.id # x.id) =>
            \E r \in Reqs :
              /\ req[r].op = "deleteRound"
              /\ req[r].pc = "delete"
              /\ InScope(req[r], x)
     /\ \A r \in Reqs :
          ( /\ req[r].op = "deleteRound"
            /\ req[r].pc = "delete"
            /\ req'[r].pc = "handicap" ) =>
              \A y \in rounds' : ~InScope(req[r], y)]_vars

\* A player deleted the round created for u1 and u2: the round of the other
\* player and a round one of them had created alone for the same date and
\* course are gone too, and the round of a third user for that date and
\* course is still stored.
C19_Witness ==
  /\ ops = 2
  /\ nextId = 5
  /\ rounds # {}
  /\ \A x \in rounds : x.userId = "u3" /\ x.date = 1 /\ x.courseId = "c1"
  /\ req[1].pc = "done"
  /\ req[1].op = "deleteRound"
  /\ req[1].status = 200

\* The step answers in r with the status, and no table changes.
Rejected(r, status) ==
  /\ req'[r].pc = "done"
  /\ req'[r].status = status
  /\ req'[r].hcp = NoEntries
  /\ rounds' = rounds
  /\ nextId' = nextId
  /\ handicap' = handicap
  /\ writer' = writer

\* C20: a createMultiPlayerRound whose requester is not among the players
\* answers 403, one that lists an unregistered player 400, one that names no
\* course 404, and a createRound that names no course 404; each answers at
\* once, puts no round and calls no recomputation.
C20_InvalidCreateWritesNothing ==
  [][\A r \in Reqs, u \in UserIds, card \in Cards, date \in Dates :
       /\ \A players \in PlayerLists :
            CreateMultiStart(r, u, players, card, date) =>
              LET ids == {players[k] : k \in 1..Len(players)}
              IN  IF u \notin ids THEN Rejected(r, 403)
                  ELSE IF ids \ DOMAIN handicap # {} THEN Rejected(r, 400)
                  ELSE IF CardBodies[card].courseId \notin DOMAIN Courses
                    THEN Rejected(r, 404)
                  ELSE req'[r].pc = "put"
       /\ CreateRoundStart(r, u, card, date) =>
            IF CardBodies[card].courseId \notin DOMAIN Courses
              THEN Rejected(r, 404)
              ELSE req'[r].pc = "put"]_vars

\* A createMultiPlayerRound that lists the unregistered u2 has answered 400
\* and the store is still empty.
C20_Witness ==
  /\ req[1].pc = "done"
  /\ req[1].op = "createMultiPlayerRound"
  /\ req[1].status = 400
  /\ "u2" \notin DOMAIN handicap
  /\ rounds = {}
  /\ nextId = 1

====
